---- MODULE Spec2Model ----
(***************************************************************************)
(* Model of the video downloader in src/main.py: the download orchestrator *)
(* (download_video with its retry loop and progress_hook), the request     *)
(* handlers that start it (index, start_download), the progress poll       *)
(* (progress_status), the preview generator (generate_preview_route,       *)
(* generate_preview) and the pure functions process_formats,               *)
(* valid_time_format and sanitize_filename, each also applied on its own   *)
(* to inputs drawn from bounded sets.                                      *)
(*                                                                         *)
(* Python strings whose characters matter (titles, trim markers, file      *)
(* names) are sequences of one-character strings.  A dict is a function    *)
(* whose DOMAIN is its key set; a dict entry is a record whose fields are  *)
(* the keys that are present.                                              *)
(***************************************************************************)
EXTENDS Integers, Sequences, FiniteSets, TLC

(***************************************************************************)
(* Bounds of the model.                                                    *)
(***************************************************************************)
\* number of download threads that can be created in one run of the model
MaxThreads == 2

Threads == 1..MaxThreads

\* largest byte count of a progress tick
MaxBytes == 3

\* longest list of raw formats given to process_formats
MaxFormats == 3

\* longest trim marker built from TimeChars
MaxTimeLen == 8

\* longest short name built from NameChars
MaxShortName == 3

\* how far the lengths of the long names reach beyond the cut
MaxOverLen == 2

\* the media ids (job ids) the extraction engine can return
Vids == {"v1", "v2"}

(***************************************************************************)
(* Characters and strings.                                                 *)
(***************************************************************************)
Digits == {"0", "1", "2", "3", "4", "5", "6", "7", "8", "9"}

Lower == {"a", "b", "c", "d", "e", "f", "g", "h", "i", "j", "k", "l", "m",
          "n", "o", "p", "q", "r", "s", "t", "u", "v", "w", "x", "y", "z"}

Upper == {"A", "B", "C", "D", "E", "F", "G", "H", "I", "J", "K", "L", "M",
          "N", "O", "P", "Q", "R", "S", "T", "U", "V", "W", "X", "Y", "Z"}

\* the characters the regular expression of sanitize_filename keeps
AllowedChars == Lower \cup Upper \cup Digits \cup {"_", "-", ".", " "}

\* A character outside ASCII is written by its code point.
\* the characters \d matches in a str pattern: the decimal digits of
\* Unicode, of which ARABIC-INDIC DIGIT THREE stands for those beyond 0-9
DecimalDigits == Digits \cup {"U+0663"}

\* the characters str.strip() removes: those of str.isspace(), of which
\* NO-BREAK SPACE stands for those beyond ASCII
Whitespace == {" ", "\t", "\n", "\r", "\f", "U+00A0"}

\* the length sanitize_filename cuts a name to
MaxNameLen == 200

Min(a, b) == IF a < b THEN a ELSE b

\* Python's None where a string is expected
None == <<"None">>

\* Python's truth value of an optional string: None and "" are false
Truthy(s) == s # None /\ s # <<>>

\* str(n) for a natural number
RECURSIVE Str(_)
Str(n) ==
    LET d == <<"0", "1", "2", "3", "4", "5", "6", "7", "8", "9">>
    IN IF n < 10 THEN <<d[n + 1]>> ELSE Str(n \div 10) \o <<d[(n % 10) + 1]>>

\* sanitize_filename without the cut
sanitize_filename_no_cut(name) ==
    [i \in 1..Len(name) |-> IF name[i] \in AllowedChars THEN name[i] ELSE "_"]

\* sanitize_filename: every character outside the allow-list becomes "_",
\* then the name is cut to 200 characters
sanitize_filename(name) ==
    LET cleaned == [i \in 1..Len(name) |->
                       IF name[i] \in AllowedChars THEN name[i] ELSE "_"]
    IN SubSeq(cleaned, 1, Min(Len(cleaned), MaxNameLen))

\* str.strip(): drop leading and trailing whitespace
strip(t) ==
    LET keep == {i \in 1..Len(t) : t[i] \notin Whitespace}
    IN IF keep = {} THEN <<>>
       ELSE LET lo == CHOOSE i \in keep : \A j \in keep : i <= j
                hi == CHOOSE i \in keep : \A j \in keep : j <= i
            IN SubSeq(t, lo, hi)

\* where $ matches in t: at the end, and before a newline that ends t
DollarEnds(t) ==
    {Len(t)} \cup (IF Len(t) >= 1 /\ t[Len(t)] = "\n" THEN {Len(t) - 1} ELSE {})

\* re.match(r'^\d+$', t)
MatchSeconds(t) ==
    \E e \in DollarEnds(t) : e >= 1 /\ \A i \in 1..e : t[i] \in DecimalDigits

\* re.match(r'^\d{1,2}(:\d{2}){0,2}$', t)
MatchClock(t) ==
    \E e \in DollarEnds(t), n \in 1..2, k \in 0..2 :
        /\ e = n + 3 * k
        /\ \A i \in 1..n : t[i] \in DecimalDigits
        /\ \A j \in 0..(k - 1) :
              /\ t[n + 3 * j + 1] = ":"
              /\ t[n + 3 * j + 2] \in DecimalDigits
              /\ t[n + 3 * j + 3] \in DecimalDigits

\* valid_time_format without the strip
valid_time_format_no_strip(t) ==
    IF t = None THEN FALSE
    ELSE MatchSeconds(t) \/ MatchClock(t)

\* valid_time_format
valid_time_format(t) ==
    IF t = None THEN FALSE
    ELSE LET s == strip(t) IN MatchSeconds(s) \/ MatchClock(s)

(***************************************************************************)
(* Inputs of the string functions.                                         *)
(***************************************************************************)
\* the characters of the generated trim markers: a digit, the separator,
\* a letter and a blank
TimeChars == {"1", ":", "a", " "}

\* trim markers given by name: those of the docstring and of the form
\* fields, markers with other whitespace and other digits, and None
TimeExamples ==
    { <<"3", "0">>, <<"1", ":", "2", "3">>,
      <<"0", "0", ":", "0", "1", ":", "2", "3">>,
      <<>>, <<"a", "b", "c">>, <<"1", ":", "2", ":", "3", ":", "4">>,
      None,
      <<"3", "0", "\n">>, <<"\t", "1", ":", "2", "3", "\r", "\n">>,
      <<"U+00A0", "3", "0", "\f">>, <<"3", "\n", "0">>,
      <<"U+0663", "0">>, <<"1", ":", "U+0663", "3">>,
      <<"1", "2", "3", ":", "4", "5">>, <<"1", "2", ":", "3", "4", "5">>,
      <<"1", "2", "3", "4", "5", "6", "7", "8", "9", "0">> }

\* the trim markers valid_time_format is applied to
TimeInputs ==
    UNION {[1..n -> TimeChars] : n \in 0..MaxTimeLen} \cup TimeExamples

\* the characters of the generated names: allowed ones of each kind and
\* characters the pattern replaces (LATIN SMALL LETTER E WITH ACUTE among
\* them)
NameChars == {"a", "Z", "7", "_", "-", ".", " ", "/", "\n", "U+00E9"}

\* names around the length of the cut: every MaxOverLen-th character from
\* the end backwards is c, the others are "x"
LongNames ==
    { [i \in 1..n |-> IF (n - i) % (MaxOverLen + 1) = 0 THEN c ELSE "x"] :
          n \in (MaxNameLen - MaxOverLen)..(MaxNameLen + MaxOverLen),
          c \in NameChars }

\* the names sanitize_filename is applied to
NameInputs ==
    UNION {[1..n -> NameChars] : n \in 0..MaxShortName} \cup LongNames

(***************************************************************************)
(* The external extraction engine: what it reports for a media id.         *)
(***************************************************************************)
\* an absent number (None where a number is expected)
Null == -1

Mp4 == <<"m", "p", "4">>
Mp3 == <<"m", "p", "3">>
M4a == <<"m", "4", "a">>

\* The entries of info['formats'].  A number the engine leaves out (or
\* gives as None) is 0 in tbr, abr, filesize and filesize_approx, which the
\* code reads with "or"; a height left out is Null.
\* a video format with a direct stream url
Fmt18 == [format_id |-> <<"1", "8">>, height |-> 360, ext |-> Mp4,
          tbr |-> 2, abr |-> 0, filesize |-> 2, filesize_approx |-> 0,
          url |-> <<"u">>]

\* an audio-only format (no height) whose entry carries no stream url
Fmt140 == [format_id |-> <<"1", "4", "0">>, height |-> Null, ext |-> M4a,
           tbr |-> 0, abr |-> 1, filesize |-> 1, filesize_approx |-> 0,
           url |-> None]

\* the formats list the engine reports; the same for every media id
EngineFormats == <<Fmt18, Fmt140>>

FormatIds == {EngineFormats[i].format_id : i \in 1..Len(EngineFormats)}

\* the titles the engine can report
Titles == {<<"a", "/">>, <<"a", "_">>, <<"b">>}

(***************************************************************************)
(* Format normalisation: process_formats.                                  *)
(***************************************************************************)
Webm == <<"w", "e", "b", "m">>
Mkv == <<"m", "k", "v">>

\* allowed_exts
allowed_exts == {Mp4, M4a, Webm, Mkv, Mp3}

UpperSeq == <<"A", "B", "C", "D", "E", "F", "G", "H", "I", "J", "K", "L", "M",
              "N", "O", "P", "Q", "R", "S", "T", "U", "V", "W", "X", "Y", "Z">>

LowerSeq == <<"a", "b", "c", "d", "e", "f", "g", "h", "i", "j", "k", "l", "m",
              "n", "o", "p", "q", "r", "s", "t", "u", "v", "w", "x", "y", "z">>

\* str.lower() on the characters of this model
lower(str) ==
    [i \in 1..Len(str) |->
        IF str[i] \in Upper
        THEN LowerSeq[CHOOSE k \in 1..Len(UpperSeq) : UpperSeq[k] = str[i]]
        ELSE str[i]]

\* a or b or 0 on optional numbers (0: None or left out)
Or0(a, b) == IF a # 0 THEN a ELSE b

\* (f.get('ext') or '').lower()
ExtOf(f) == IF Truthy(f.ext) THEN lower(f.ext) ELSE <<>>

\* lines 167-175: the entry built for a raw format (format_note and the
\* label rendered at the end are display text and are left out)
Candidate(f) ==
    [format_id |-> f.format_id, height |-> f.height, ext |-> ExtOf(f),
     tbr |-> Or0(f.tbr, f.abr),
     filesize |-> Or0(f.filesize, f.filesize_approx), url |-> f.url]

\* lines 161-176: the entries of the raw formats with an allowed extension
RECURSIVE Candidates(_)
Candidates(raw_formats) ==
    IF raw_formats = <<>> THEN <<>>
    ELSE LET f == Head(raw_formats)
         IN IF ExtOf(f) \in allowed_exts
            THEN <<Candidate(f)>> \o Candidates(Tail(raw_formats))
            ELSE Candidates(Tail(raw_formats))

\* key = (f['height'] or 0, f['ext'])
DedupKey(f) == <<IF f.height = Null THEN 0 ELSE f.height, f.ext>>

\* a dedupe loop that keeps every candidate
RECURSIVE Dedup_keep_all(_, _)
Dedup_keep_all(candidates, dedup) ==
    IF candidates = <<>> THEN dedup
    ELSE Dedup_keep_all(Tail(candidates), Append(dedup, Head(candidates)))

\* lines 179-192: the loop over the candidates.  dedup is the dict as the
\* list of its values in insertion order: a new key is appended, a
\* replaced value keeps the place of its key
RECURSIVE Dedup(_, _)
Dedup(candidates, dedup) ==
    IF candidates = <<>> THEN dedup
    ELSE LET f == Head(candidates)
             hit == {i \in 1..Len(dedup) : DedupKey(dedup[i]) = DedupKey(f)}
         IN IF hit = {}
            THEN Dedup(Tail(candidates), Append(dedup, f))
            ELSE LET i == CHOOSE i \in hit : TRUE
                     prev == dedup[i]
                 IN IF f.filesize > prev.filesize
                    THEN Dedup(Tail(candidates), [dedup EXCEPT ![i] = f])
                    ELSE IF f.tbr > prev.tbr
                    THEN Dedup(Tail(candidates), [dedup EXCEPT ![i] = f])
                    ELSE Dedup(Tail(candidates), dedup)

\* a sort key that orders the heights ascending
sort_key_ascending(f) ==
    <<IF f.height = Null THEN 1 ELSE 0,
      IF f.height = Null THEN 0 ELSE f.height, -f.tbr, -f.filesize>>

\* sort_key(f): (is_audio, -h, -tbr, -filesize)
sort_key(f) ==
    <<IF f.height = Null THEN 1 ELSE 0,
      -(IF f.height = Null THEN 0 ELSE f.height), -f.tbr, -f.filesize>>

\* a <= b on tuples of four numbers, as Python compares tuples
TupleLeq(a, b) ==
    \/ a[1] < b[1]
    \/ a[1] = b[1] /\ a[2] < b[2]
    \/ a[1] = b[1] /\ a[2] = b[2] /\ a[3] < b[3]
    \/ a[1] = b[1] /\ a[2] = b[2] /\ a[3] = b[3] /\ a[4] <= b[4]

\* out.sort(key=sort_key): a stable sort, here by insertion of each entry
\* behind the entries whose key is not greater
RECURSIVE SortByKey(_)
SortByKey(out) ==
    IF out = <<>> THEN <<>>
    ELSE LET n == Len(out)
             f == out[n]
             front == SortByKey(SubSeq(out, 1, n - 1))
             k == Cardinality({i \in 1..(n - 1) :
                                  TupleLeq(sort_key(front[i]), sort_key(f))})
         IN SubSeq(front, 1, k) \o <<f>> \o SubSeq(front, k + 1, n - 1)

\* process_formats(raw_formats)
process_formats(raw_formats) ==
    IF raw_formats = <<>> THEN <<>>
    ELSE SortByKey(Dedup(Candidates(raw_formats), <<>>))

\* what a raw format tells of its bitrate and size: tbr alone, abr alone
\* with an exact size, or both rates with an approximate size only
Measures ==
    { [tbr |-> 2, abr |-> 0, filesize |-> 1, filesize_approx |-> 0],
      [tbr |-> 0, abr |-> 1, filesize |-> 2, filesize_approx |-> 0],
      [tbr |-> 1, abr |-> 2, filesize |-> 0, filesize_approx |-> 1] }

\* the raw formats given to process_formats: video of two heights (one of
\* them 0) and audio-only, in two allowed containers (one spelled in upper
\* case), and formats with a container that is not allowed or not given
RawFormats ==
    { [format_id |-> <<"f">>, height |-> h, ext |-> e, tbr |-> m.tbr,
       abr |-> m.abr, filesize |-> m.filesize,
       filesize_approx |-> m.filesize_approx, url |-> None] :
          h \in {Null, 0, 360}, e \in {Mp4, <<"W", "E", "B", "M">>},
          m \in Measures }
    \cup
    { [format_id |-> <<"f">>, height |-> 360, ext |-> e, tbr |-> 2,
       abr |-> 0, filesize |-> 2, filesize_approx |-> 0, url |-> None] :
          e \in {<<"f", "l", "v">>, None} }

\* the lists of at most MaxFormats raw formats
RawLists == UNION {[1..n -> RawFormats] : n \in 0..MaxFormats}

(***************************************************************************)
(* Request inputs.                                                         *)
(***************************************************************************)
\* the form fields of POST /start_download
StartForms ==
    { [format_id |-> <<"1", "8">>, extract_audio |-> FALSE,
       start_time |-> None, end_time |-> None],
      [format_id |-> <<"1", "8">>, extract_audio |-> TRUE,
       start_time |-> <<>>, end_time |-> <<>>],
      [format_id |-> <<"1", "8">>, extract_audio |-> FALSE,
       start_time |-> <<"3", "0">>, end_time |-> <<"1", ":", "2", "3">>],
      [format_id |-> <<"1", "8">>, extract_audio |-> FALSE,
       start_time |-> <<"a", "b">>, end_time |-> <<>>],
      [format_id |-> <<"1", "8">>, extract_audio |-> TRUE,
       start_time |-> <<" ", "3", "0">>, end_time |-> <<"1", ":", "2">>] }

\* the form fields of the requests around trimming: a start marker, an end
\* marker, both, neither, and markers with audio extraction
TrimForms ==
    { [format_id |-> <<"1", "8">>, extract_audio |-> a, start_time |-> st,
       end_time |-> en] :
          a \in {FALSE}, st \in {<<>>, <<"3", "0">>},
          en \in {<<>>, <<"1", ":", "2", "3">>} }
    \cup
    { [format_id |-> <<"1", "8">>, extract_audio |-> TRUE,
       start_time |-> <<"3", "0">>, end_time |-> <<"1", ":", "2", "3">>] }

\* the dicts the engine passes to the progress hook
Ticks ==
    { [status |-> "downloading", downloaded_bytes |-> 1, total_bytes |-> 2,
       total_bytes_estimate |-> 0, speed |-> 1, eta |-> Null],
      [status |-> "finished", downloaded_bytes |-> 2, total_bytes |-> 2,
       total_bytes_estimate |-> 0, speed |-> 0, eta |-> Null],
      [status |-> "error", downloaded_bytes |-> 0, total_bytes |-> 0,
       total_bytes_estimate |-> 0, speed |-> 0, eta |-> Null] }

\* the downloading ticks the engine can pass: any byte count so far, with
\* an exact total, an estimated total, both or neither (0: left out or
\* None).  The count stays within an exact total and can pass an estimate
\* that was too low
ProgressTicks ==
    LET all == { [status |-> "downloading", downloaded_bytes |-> n,
                  total_bytes |-> tb, total_bytes_estimate |-> te,
                  speed |-> 0, eta |-> Null] :
                     n \in 0..MaxBytes, tb \in {0, MaxBytes},
                     te \in {0, MaxBytes - 1, MaxBytes} }
    IN {d \in all : d.total_bytes = 0 \/ d.downloaded_bytes <= d.total_bytes}

\* the job ids GET /progress/<video_id> is polled with: the media ids and
\* one that no job carries
PollIds == Vids \cup {"v0"}

(***************************************************************************)
(* State.                                                                  *)
(***************************************************************************)
VARIABLES
    FFMPEG_AVAILABLE,  \* module global: ffmpeg and ffprobe found at startup
    engine_title,      \* the title the engine reports for each media id
    video_store,       \* module global: media id -> JobRecord
    progress_data,     \* module global: media id -> ProgressRecord
    downloads,         \* complete files in DOWNLOAD_FOLDER
    trimmed,           \* those of them that hold a trimmed copy
    previews,          \* files in PREVIEW_FOLDER
    flashes,           \* messages flashed to the session
    thread,            \* the download_video threads
    preview_log,       \* the last two replies of /generate_preview
    arg,               \* the argument of the function applied on its own
    ret                \* the last value returned: [fn, val]

vars == <<FFMPEG_AVAILABLE, engine_title, video_store, progress_data,
          downloads, trimmed, previews, flashes, thread, preview_log,
          arg, ret>>

\* nothing was returned yet
NoReturn == [fn |-> "", val |-> <<>>]

\* d[k] = v on a dict
Put(d, k, v) == [x \in DOMAIN d \cup {k} |-> IF x = k THEN v ELSE d[x]]

\* a thread that was not created
IdleThread ==
    [pc |-> "idle", video_id |-> "", title |-> <<>>, format_id |-> <<>>,
     height |-> Null, extract_audio |-> FALSE, start_time |-> None,
     end_time |-> None, attempt |-> 0, calls |-> 0, errors |-> <<>>,
     trim_failed |-> 0, outcome |-> "", returned |-> {}, trims |-> <<>>]

Init ==
    /\ FFMPEG_AVAILABLE \in BOOLEAN
    /\ engine_title = [v \in Vids |-> IF v = "v1" THEN <<"a", "/">> ELSE <<"b">>]
    /\ video_store = <<>>
    /\ progress_data = <<>>
    /\ downloads = {}
    /\ trimmed = {}
    /\ previews = {}
    /\ flashes = {}
    /\ thread = [t \in Threads |-> IdleThread]
    /\ preview_log = <<>>
    /\ arg = <<>>
    /\ ret = NoReturn

(***************************************************************************)
(* Progress records and the progress hook.                                 *)
(***************************************************************************)
\* a retry loop with one attempt too many
max_attempts_4 == 3 + 1

max_attempts == 3

Starting == [status |-> "starting", percent |-> 0]

NoFfmpegError ==
    [status |-> "error",
     message |-> "ffmpeg not found - cannot extract audio (mp3)."]

\* the record the except clause of the retry loop writes
AttemptError(attempt) ==
    [status |-> "error", message |-> "exception", attempt |-> attempt]

\* progress_data.get(video_id, {}).get('status')
StatusOf(pd, video_id) ==
    IF video_id \in DOMAIN pd THEN pd[video_id].status ELSE "None"

\* progress_hook(video_id, d): the new progress_data.  A number the engine
\* leaves out is 0 in d (the code reads it with "or"), an absent eta is Null.
\* percent is int(downloaded / total * 100); on the ticks of this model the
\* floating-point value is exact, so it is the floor computed here.  The
\* display strings speed_text and eta_text are functions of speed and eta
\* and are left out of the record.
progress_hook(pd, video_id, d) ==
    IF d.status = "downloading" THEN
        LET total == IF d.total_bytes # 0 THEN d.total_bytes
                     ELSE d.total_bytes_estimate
            downloaded == d.downloaded_bytes
            speed == d.speed
            percent == IF total # 0 THEN (downloaded * 100) \div total ELSE 0
            remain == IF total - downloaded > 0 THEN total - downloaded ELSE 0
            eta == IF total # 0 /\ speed # 0 THEN remain \div speed ELSE d.eta
        IN Put(pd, video_id, [status |-> "downloading", percent |-> percent,
                              speed |-> speed, eta |-> eta])
    ELSE IF d.status = "finished" THEN
        Put(pd, video_id, [status |-> "finished", percent |-> 100,
                           speed |-> 0, eta |-> 0])
    ELSE IF d.status = "error" THEN
        Put(pd, video_id, [status |-> "error", message |-> "Unknown error"])
    ELSE pd

(***************************************************************************)
(* File names.                                                             *)
(***************************************************************************)
\* f"{height}p" if height else format_id
Resolution(height, format_id) ==
    IF height # Null /\ height # 0 THEN Str(height) \o <<"p">> ELSE format_id

\* f"{safe_title}_{resolution}.{ext}" in DOWNLOAD_FOLDER
OutputName(title, height, format_id, ext) ==
    sanitize_filename(title) \o <<"_">> \o Resolution(height, format_id)
        \o <<".">> \o ext

\* the extension the engine gives the file of a format
EngineExt(format_id) ==
    IF \E i \in 1..Len(EngineFormats) : EngineFormats[i].format_id = format_id
    THEN (CHOOSE f \in {EngineFormats[i] : i \in 1..Len(EngineFormats)} :
              f.format_id = format_id).ext
    ELSE Mp4

\* the file the engine writes for a thread: the output template with the
\* format's extension, or mp3 after audio extraction
EngineOutput(th) ==
    OutputName(th.title, th.height, th.format_id,
               IF th.extract_audio THEN Mp3 ELSE EngineExt(th.format_id))

\* original_file of the trimming step
OriginalFile(th) == OutputName(th.title, th.height, th.format_id, Mp4)

(***************************************************************************)
(* Request handlers.                                                       *)
(***************************************************************************)
\* index(), POST with a url the engine resolves to media id v: the job
\* record is created anew (with the normalised formats and without
\* previews) and the session now holds v.
\* A request whose extraction fails only flashes a message and is left out.
Index(v) ==
    /\ video_store' = Put(video_store, v,
           [formats |-> process_formats(EngineFormats),
            title |-> engine_title[v],
            previews |-> <<>>])
    /\ preview_log' = <<>>
    /\ UNCHANGED <<FFMPEG_AVAILABLE, engine_title, progress_data, downloads,
                   trimmed, previews, flashes, thread, arg, ret>>

\* next(f for f in formats if f.format_id == format_id), its height
SelectedHeight(v, format_id) ==
    LET fs == video_store[v].formats
        hit == {i \in 1..Len(fs) : fs[i].format_id = format_id}
    IN IF hit = {} THEN Null
       ELSE fs[CHOOSE i \in hit : \A j \in hit : i <= j].height

\* the thread start_download creates
NewThread(v, form) ==
    [pc |-> "begin", video_id |-> v, title |-> video_store[v].title,
     format_id |-> form.format_id,
     height |-> SelectedHeight(v, form.format_id),
     extract_audio |-> form.extract_audio, start_time |-> form.start_time,
     end_time |-> form.end_time, attempt |-> 0, calls |-> 0,
     errors |-> <<>>, trim_failed |-> 0, outcome |-> "", returned |-> {},
     trims |-> <<>>]

\* start_download without the validation of the trim markers
start_download_unchecked(v, form) ==
    /\ v \in DOMAIN video_store
    /\ \E t \in Threads :
          /\ thread[t].pc = "idle"
          /\ \A u \in Threads : u < t => thread[u].pc # "idle"
          /\ progress_data' = Put(progress_data, v, Starting)
          /\ thread' = [thread EXCEPT ![t] = NewThread(v, form)]
    /\ UNCHANGED <<FFMPEG_AVAILABLE, engine_title, video_store, downloads,
                   trimmed, previews, preview_log, flashes, arg, ret>>

\* start_download() in a session whose video is v (some session holds v
\* once index() resolved it): validation, the check for an existing file,
\* then the reset of the record and the new thread
start_download(v, form) ==
    /\ v \in DOMAIN video_store
    /\ IF Truthy(form.start_time) /\ ~valid_time_format(form.start_time) THEN
           /\ flashes' = flashes \cup {"Invalid start time format. Use HH:MM:SS"}
           /\ UNCHANGED <<progress_data, thread>>
       ELSE IF Truthy(form.end_time) /\ ~valid_time_format(form.end_time) THEN
           /\ flashes' = flashes \cup {"Invalid end time format. Use HH:MM:SS"}
           /\ UNCHANGED <<progress_data, thread>>
       ELSE IF OutputName(video_store[v].title,
                          SelectedHeight(v, form.format_id), form.format_id,
                          IF form.extract_audio THEN Mp3 ELSE Mp4) \in downloads
       THEN UNCHANGED <<progress_data, thread, flashes>>
       ELSE \E t \in Threads :
               /\ thread[t].pc = "idle"
               /\ \A u \in Threads : u < t => thread[u].pc # "idle"
               /\ progress_data' = Put(progress_data, v, Starting)
               /\ thread' = [thread EXCEPT ![t] = NewThread(v, form)]
               /\ UNCHANGED flashes
    /\ UNCHANGED <<FFMPEG_AVAILABLE, engine_title, video_store, downloads,
                   trimmed, previews, preview_log, arg, ret>>

(***************************************************************************)
(* download_video, one thread t.  pc is the thread's place in the code:    *)
(*   begin     entered, before the audio check                             *)
(*   download  inside ydl.download of the current attempt                  *)
(*   trim      the download returned, before the trimming step             *)
(*   sleep     the except clause wrote its record, in time.sleep(backoff)  *)
(*   ensure    left the loop by break, before the final check              *)
(*   done      returned                                                    *)
(* calls counts the engine invocations, errors lists the attempt numbers   *)
(* of the records the except clause wrote, trim_failed is the attempt      *)
(* whose trimming step failed (0: none), outcome is how the thread ended,  *)
(* returned holds the attempts whose ydl.download returned and trims lists *)
(* the calls of trim_media: the attempt, the command and how it ended.     *)
(***************************************************************************)
OtherVars == <<FFMPEG_AVAILABLE, engine_title, video_store, previews,
               flashes, preview_log, arg, ret>>

\* trim_media is reached: (start_time or end_time) and not extract_audio
WantsTrim(th) ==
    (Truthy(th.start_time) \/ Truthy(th.end_time)) /\ ~th.extract_audio

\* download_video without the ffmpeg check of audio extraction
Begin_unchecked(t) ==
    /\ thread[t].pc = "begin"
    /\ thread' = [thread EXCEPT ![t].pc = "download",
                                ![t].attempt = 1, ![t].calls = 1]
    /\ UNCHANGED <<progress_data, downloads, trimmed>>
    /\ UNCHANGED OtherVars

\* lines 266-275: the audio check before the retry loop
Begin(t) ==
    /\ thread[t].pc = "begin"
    /\ IF thread[t].extract_audio /\ ~FFMPEG_AVAILABLE THEN
           /\ progress_data' =
                  Put(progress_data, thread[t].video_id, NoFfmpegError)
           /\ thread' = [thread EXCEPT ![t].pc = "done",
                                       ![t].outcome = "no_ffmpeg"]
       ELSE
           /\ thread' = [thread EXCEPT ![t].pc = "download",
                                       ![t].attempt = 1, ![t].calls = 1]
           /\ UNCHANGED progress_data
    /\ UNCHANGED <<downloads, trimmed>>
    /\ UNCHANGED OtherVars

\* the engine calls the progress hook during ydl.download
EngineTick(t, d) ==
    /\ thread[t].pc = "download"
    /\ progress_data' = progress_hook(progress_data, thread[t].video_id, d)
    /\ UNCHANGED <<thread, downloads, trimmed>>
    /\ UNCHANGED OtherVars

\* ydl.download returns: the output file is complete
EngineReturn(t) ==
    /\ thread[t].pc = "download"
    /\ downloads' = downloads \cup {EngineOutput(thread[t])}
    /\ thread' = IF WantsTrim(thread[t])
                 THEN [thread EXCEPT ![t].pc = "trim",
                                     ![t].returned = @ \cup {thread[t].attempt}]
                 ELSE [thread EXCEPT ![t].pc = "ensure",
                                     ![t].outcome = "success",
                                     ![t].returned = @ \cup {thread[t].attempt}]
    /\ UNCHANGED <<progress_data, trimmed>>
    /\ UNCHANGED OtherVars

\* an except clause that writes its error record for every job id
ExceptClause_all_jobs(t) ==
    LET k == thread[t].attempt IN
    /\ progress_data' = [v \in DOMAIN progress_data |-> AttemptError(k)]
    /\ IF k = max_attempts
       THEN thread' = [thread EXCEPT ![t].pc = "done",
                                     ![t].outcome = "exhausted",
                                     ![t].errors = Append(@, k)]
       ELSE thread' = [thread EXCEPT ![t].pc = "sleep",
                                     ![t].errors = Append(@, k)]

\* lines 293-303, up to the sleep: the except clause of attempt k
ExceptClause(t) ==
    LET k == thread[t].attempt IN
    /\ progress_data' = Put(progress_data, thread[t].video_id, AttemptError(k))
    /\ IF k = max_attempts
       THEN thread' = [thread EXCEPT ![t].pc = "done",
                                     ![t].outcome = "exhausted",
                                     ![t].errors = Append(@, k)]
       ELSE thread' = [thread EXCEPT ![t].pc = "sleep",
                                     ![t].errors = Append(@, k)]

\* ydl.download raises
EngineRaise(t) ==
    /\ thread[t].pc = "download"
    /\ ExceptClause(t)
    /\ UNCHANGED <<downloads, trimmed>>
    /\ UNCHANGED OtherVars

\* trimmed_file of the trimming step
TrimmedFile(th) ==
    sanitize_filename(th.title) \o <<"_">>
        \o Resolution(th.height, th.format_id)
        \o <<"_", "t", "r", "i", "m", "m", "e", "d", ".", "m", "p", "4">>

\* a fixed word of a command line, as one argument
Word(w) == <<w>>

\* a trim command that bounds the end by -to also without a start
trim_media_always_to(input_path, output_path, start_time, end_time) ==
    <<Word("ffmpeg"), Word("-y"), Word("-i"), input_path>>
        \o (IF Truthy(start_time) THEN <<Word("-ss"), start_time>> ELSE <<>>)
        \o (IF Truthy(end_time) THEN <<Word("-to"), end_time>> ELSE <<>>)
        \o <<output_path>>

\* trim_media, lines 231-240: cmd
trim_media(input_path, output_path, start_time, end_time) ==
    <<Word("ffmpeg"), Word("-y"), Word("-i"), input_path>>
        \o (IF Truthy(start_time) THEN <<Word("-ss"), start_time>> ELSE <<>>)
        \o (IF Truthy(end_time)
            THEN IF Truthy(start_time) THEN <<Word("-to"), end_time>>
                 ELSE <<Word("-t"), end_time>>
            ELSE <<>>)
        \o <<output_path>>

\* the call of trim_media by thread t with its outcome
TrimCall(t, result) ==
    [attempt |-> thread[t].attempt,
     cmd |-> trim_media(OriginalFile(thread[t]), TrimmedFile(thread[t]),
                        thread[t].start_time, thread[t].end_time),
     result |-> result]

\* lines 284-289: trim_media and the replace.  ffmpeg exits 0 (only when its
\* input file exists), exits non-zero, or cannot be run, in which case
\* subprocess.run raises inside the try block
Trim(t) ==
    /\ thread[t].pc = "trim"
    /\ \/ /\ OriginalFile(thread[t]) \in downloads
          /\ trimmed' = trimmed \cup {OriginalFile(thread[t])}
          /\ thread' = [thread EXCEPT ![t].pc = "ensure",
                                      ![t].outcome = "success",
                                      ![t].trims = Append(@, TrimCall(t, "ok"))]
          /\ UNCHANGED progress_data
       \/ /\ thread' = [thread EXCEPT ![t].pc = "ensure",
                                      ![t].outcome = "success",
                                      ![t].trim_failed = thread[t].attempt,
                                      ![t].trims =
                                          Append(@, TrimCall(t, "nonzero"))]
          /\ UNCHANGED <<progress_data, trimmed>>
       \/ /\ progress_data' = Put(progress_data, thread[t].video_id,
                                  AttemptError(thread[t].attempt))
          /\ thread' =
                 [thread EXCEPT
                    ![t].pc = IF thread[t].attempt = max_attempts
                              THEN "done" ELSE "sleep",
                    ![t].outcome = IF thread[t].attempt = max_attempts
                                   THEN "exhausted" ELSE "",
                    ![t].errors = Append(@, thread[t].attempt),
                    ![t].trim_failed = thread[t].attempt,
                    ![t].trims = Append(@, TrimCall(t, "raised"))]
          /\ UNCHANGED trimmed
    /\ UNCHANGED downloads
    /\ UNCHANGED OtherVars

\* a retry that does not reset the record after the sleep
Wake_no_reset(t) ==
    /\ thread[t].pc = "sleep"
    /\ thread' = [thread EXCEPT ![t].pc = "download",
                                ![t].attempt = thread[t].attempt + 1,
                                ![t].calls = thread[t].calls + 1]
    /\ UNCHANGED <<progress_data, downloads, trimmed>>
    /\ UNCHANGED OtherVars

\* lines 301-303 and the next iteration: the sleep ends, the record is
\* reset and the next attempt enters ydl.download
Wake(t) ==
    /\ thread[t].pc = "sleep"
    /\ progress_data' = Put(progress_data, thread[t].video_id, Starting)
    /\ thread' = [thread EXCEPT ![t].pc = "download",
                                ![t].attempt = thread[t].attempt + 1,
                                ![t].calls = thread[t].calls + 1]
    /\ UNCHANGED <<downloads, trimmed>>
    /\ UNCHANGED OtherVars

\* lines 306-307
Ensure(t) ==
    /\ thread[t].pc = "ensure"
    /\ IF StatusOf(progress_data, thread[t].video_id) = "finished"
       THEN progress_data' =
                [progress_data EXCEPT ![thread[t].video_id].percent = 100]
       ELSE UNCHANGED progress_data
    /\ thread' = [thread EXCEPT ![t].pc = "done"]
    /\ UNCHANGED <<downloads, trimmed>>
    /\ UNCHANGED OtherVars

(***************************************************************************)
(* Progress polling.                                                       *)
(***************************************************************************)
\* the default of progress_data.get in progress_status
NotStarted == [status |-> "not started", percent |-> 0]

\* a poll that stores the default record it answers with
progress_status_setdefault(video_id) ==
    /\ progress_data' = IF video_id \in DOMAIN progress_data
                        THEN progress_data
                        ELSE Put(progress_data, video_id, NotStarted)
    /\ ret' = [fn |-> "progress_status",
               val |-> IF video_id \in DOMAIN progress_data
                       THEN progress_data[video_id] ELSE NotStarted]
    /\ UNCHANGED <<FFMPEG_AVAILABLE, engine_title, video_store, downloads,
                   trimmed, previews, flashes, thread, preview_log, arg>>

\* progress_status(video_id): the record of the job or the default
progress_status(video_id) ==
    /\ ret' = [fn |-> "progress_status",
               val |-> IF video_id \in DOMAIN progress_data
                       THEN progress_data[video_id] ELSE NotStarted]
    /\ UNCHANGED <<FFMPEG_AVAILABLE, engine_title, video_store, progress_data,
                   downloads, trimmed, previews, flashes, thread, preview_log,
                   arg>>

(***************************************************************************)
(* Previews.                                                               *)
(***************************************************************************)
\* the format ids a preview can be requested for: the listed ones and one
\* that no format of the store carries
PreviewFormatIds == FormatIds \cup {<<"9">>}

\* f"{safe_name}_{format_id}_preview.mp4"; safe_name is the sanitized title
\* (titles are never empty here, so the fallback to the video id is unused)
PreviewName(title, format_id) ==
    sanitize_filename(title) \o <<"_">> \o format_id
        \o <<"_", "p", "r", "e", "v", "i", "e", "w", ".", "m", "p", "4">>

\* what one run of ffmpeg on a preview can do: exit 0 with the file written,
\* or fail (non-zero exit, timeout, cannot be run) with or without a partial
\* output file left behind
FfmpegOutcomes == {"ok", "failed", "failed_partial"}

\* _generate_preview_ffmpeg(stream_url, out_path) with the directory dir:
\* whether it succeeded, the directory afterwards and whether ffmpeg ran
generate_preview_ffmpeg(out_path, dir, ffmpeg) ==
    IF ~FFMPEG_AVAILABLE THEN [ok |-> FALSE, dir |-> dir, runs |-> 0]
    ELSE IF ffmpeg = "ok"
         THEN [ok |-> TRUE, dir |-> dir \cup {out_path}, runs |-> 1]
    ELSE IF ffmpeg = "failed_partial"
         THEN [ok |-> FALSE, dir |-> dir \cup {out_path}, runs |-> 1]
    ELSE [ok |-> FALSE, dir |-> dir, runs |-> 1]

\* generate_preview without the removal of the partial output file
generate_preview_no_cleanup(video_id, format_id, resolved, ffmpeg) ==
    IF video_id \notin DOMAIN video_store
    THEN [fname |-> None, reason |-> "no store", dir |-> previews, runs |-> 0]
    ELSE
    LET store == video_store[video_id]
        hit == {i \in 1..Len(store.formats) :
                   store.formats[i].format_id = format_id}
    IN IF hit = {}
       THEN [fname |-> None, reason |-> "no format", dir |-> previews,
             runs |-> 0]
       ELSE
       LET fmt == store.formats[CHOOSE i \in hit : \A j \in hit : i <= j]
           has_url == Truthy(fmt.url) \/ resolved
           preview_fname == PreviewName(store.title, format_id)
       IN IF ~has_url
          THEN [fname |-> None, reason |-> "no url", dir |-> previews,
                runs |-> 0]
          ELSE IF preview_fname \in previews
          THEN [fname |-> preview_fname, reason |-> "", dir |-> previews,
                runs |-> 0]
          ELSE
          LET run == generate_preview_ffmpeg(preview_fname, previews, ffmpeg)
          IN IF run.ok
             THEN [fname |-> preview_fname, reason |-> "", dir |-> run.dir,
                   runs |-> run.runs]
             ELSE [fname |-> None, reason |-> "ffmpeg failed",
                   dir |-> run.dir, runs |-> run.runs]

\* generate_preview(video_id, format_id).  resolved: the re-extraction finds
\* a stream url for the format; ffmpeg: the outcome of the transcoder if it
\* is run.  The result: the file name returned (None: failure), why it
\* failed, the preview directory afterwards and the number of ffmpeg runs
generate_preview(video_id, format_id, resolved, ffmpeg) ==
    IF video_id \notin DOMAIN video_store
    THEN [fname |-> None, reason |-> "no store", dir |-> previews, runs |-> 0]
    ELSE
    LET store == video_store[video_id]
        hit == {i \in 1..Len(store.formats) :
                   store.formats[i].format_id = format_id}
    IN IF hit = {}
       THEN [fname |-> None, reason |-> "no format", dir |-> previews,
             runs |-> 0]
       ELSE
       LET fmt == store.formats[CHOOSE i \in hit : \A j \in hit : i <= j]
           has_url == Truthy(fmt.url) \/ resolved
           preview_fname == PreviewName(store.title, format_id)
       IN IF ~has_url
          THEN [fname |-> None, reason |-> "no url", dir |-> previews,
                runs |-> 0]
          ELSE IF preview_fname \in previews
          THEN [fname |-> preview_fname, reason |-> "", dir |-> previews,
                runs |-> 0]
          ELSE
          LET run == generate_preview_ffmpeg(preview_fname, previews, ffmpeg)
          IN IF run.ok
             THEN [fname |-> preview_fname, reason |-> "", dir |-> run.dir,
                   runs |-> run.runs]
             ELSE [fname |-> None, reason |-> "ffmpeg failed",
                   dir |-> run.dir \ {preview_fname}, runs |-> run.runs]

\* the reply of /generate_preview as the log keeps it: the JSON status, the
\* file name behind the url, why generation failed, the number of ffmpeg
\* runs the request made and whether the answer came from the job's
\* previews mapping
Reply(video_id, format_id, fname, reason, runs, recorded) ==
    [video_id |-> video_id, format_id |-> format_id,
     status |-> IF fname = None THEN "error" ELSE "ready",
     fname |-> fname, reason |-> reason, ffmpeg_runs |-> runs,
     recorded |-> recorded]

\* the log keeps the last two replies
Logged(log, reply) ==
    IF Len(log) < 2 THEN Append(log, reply) ELSE <<log[2], reply>>

\* generate_preview_route without the lookup in the job's previews mapping
generate_preview_route_uncached(video_id, format_id) ==
    /\ \E resolved \in BOOLEAN, ffmpeg \in FfmpegOutcomes :
          LET r == generate_preview(video_id, format_id, resolved, ffmpeg)
          IN /\ previews' = r.dir
             /\ video_store' =
                   IF r.fname # None
                   THEN [video_store EXCEPT ![video_id].previews =
                            Put(@, format_id, r.fname)]
                   ELSE video_store
             /\ preview_log' = Logged(preview_log,
                   Reply(video_id, format_id, r.fname, r.reason, r.runs,
                         FALSE))
    /\ UNCHANGED <<FFMPEG_AVAILABLE, engine_title, progress_data, downloads,
                   trimmed, flashes, thread, arg, ret>>

\* generate_preview_route(video_id, format_id)
generate_preview_route(video_id, format_id) ==
    /\ IF /\ video_id \in DOMAIN video_store
          /\ format_id \in DOMAIN video_store[video_id].previews
       THEN /\ preview_log' = Logged(preview_log,
                   Reply(video_id, format_id,
                         video_store[video_id].previews[format_id], "", 0,
                         TRUE))
            /\ UNCHANGED <<video_store, previews>>
       ELSE \E resolved \in BOOLEAN, ffmpeg \in FfmpegOutcomes :
               LET r == generate_preview(video_id, format_id, resolved, ffmpeg)
               IN /\ previews' = r.dir
                  /\ video_store' =
                        IF r.fname # None
                        THEN [video_store EXCEPT ![video_id].previews =
                                 Put(@, format_id, r.fname)]
                        ELSE video_store
                  /\ preview_log' = Logged(preview_log,
                        Reply(video_id, format_id, r.fname, r.reason, r.runs,
                         FALSE))
    /\ UNCHANGED <<FFMPEG_AVAILABLE, engine_title, progress_data, downloads,
                   trimmed, flashes, thread, arg, ret>>

\* a step of download_video other than a progress tick
Advance(t) ==
    \/ Begin(t)
    \/ EngineReturn(t)
    \/ EngineRaise(t)
    \/ Trim(t)
    \/ Wake(t)
    \/ Ensure(t)

\* the forms that pass the validation of start_download
ValidForms ==
    {form \in StartForms :
        /\ Truthy(form.start_time) => valid_time_format(form.start_time)
        /\ Truthy(form.end_time) => valid_time_format(form.end_time)}

\* the download orchestrator: jobs are started with well-formed requests
Next ==
    \/ \E v \in Vids : Index(v)
    \/ \E v \in Vids, form \in ValidForms : start_download(v, form)
    \/ \E t \in Threads, d \in Ticks : EngineTick(t, d)
    \/ \E t \in Threads : Advance(t)

Spec == Init /\ [][Next]_vars

\* the request handlers with every form, around downloads whose engine
\* does not raise
NextRequests ==
    \/ \E v \in Vids : Index(v)
    \/ \E v \in Vids, form \in StartForms : start_download(v, form)
    \/ \E t \in Threads, d \in Ticks : EngineTick(t, d)
    \/ \E t \in Threads : Begin(t) \/ EngineReturn(t) \/ Trim(t) \/ Ensure(t)

SpecRequests == Init /\ [][NextRequests]_vars

\* the forms without trim markers and without audio extraction
PlainForms ==
    {form \in StartForms :
        /\ ~form.extract_audio
        /\ ~Truthy(form.start_time)
        /\ ~Truthy(form.end_time)}

\* plain downloads whose engine reports every kind of tick, and the
\* clients polling their progress
NextProgress ==
    \/ \E v \in Vids : Index(v)
    \/ \E v \in Vids, form \in PlainForms : start_download(v, form)
    \/ \E t \in Threads, d \in Ticks \cup ProgressTicks : EngineTick(t, d)
    \/ \E t \in Threads : Begin(t) \/ EngineReturn(t) \/ Ensure(t)
    \/ \E v \in PollIds : progress_status(v)

SpecProgress == Init /\ [][NextProgress]_vars

\* a state in which nothing has run and arg is drawn from the set inputs
InitCall(inputs) ==
    /\ FFMPEG_AVAILABLE = TRUE
    /\ engine_title = [v \in Vids |-> IF v = "v1" THEN <<"a", "/">> ELSE <<"b">>]
    /\ video_store = <<>>
    /\ progress_data = <<>>
    /\ downloads = {}
    /\ trimmed = {}
    /\ previews = {}
    /\ flashes = {}
    /\ thread = [t \in Threads |-> IdleThread]
    /\ preview_log = <<>>
    /\ arg \in inputs
    /\ ret = NoReturn

\* a function applied on its own: ret becomes its result val
Return(fn, val) ==
    /\ ret = NoReturn
    /\ ret' = [fn |-> fn, val |-> val]
    /\ UNCHANGED <<FFMPEG_AVAILABLE, engine_title, video_store, progress_data,
                   downloads, trimmed, previews, flashes, thread, preview_log,
                   arg>>

\* process_formats applied to a list of raw formats
CallProcessFormats == Return("process_formats", process_formats(arg))

SpecFormats == InitCall(RawLists) /\ [][CallProcessFormats]_vars

\* valid_time_format applied to a trim marker
CallValidTimeFormat == Return("valid_time_format", valid_time_format(arg))

SpecTime == InitCall(TimeInputs) /\ [][CallValidTimeFormat]_vars

\* sanitize_filename applied to a name
CallSanitizeFilename == Return("sanitize_filename", sanitize_filename(arg))

SpecNames == InitCall(NameInputs) /\ [][CallSanitizeFilename]_vars

\* downloads of one media id with and without trim markers, without
\* progress ticks
NextTrim ==
    \/ Index("v1")
    \/ \E form \in TrimForms : start_download("v1", form)
    \/ \E t \in Threads : Advance(t)

SpecTrim == Init /\ [][NextTrim]_vars

NextPreview ==
    \/ \E v \in Vids : Index(v)
    \/ \E v \in Vids, f \in PreviewFormatIds : generate_preview_route(v, f)

\* the preview generator
SpecPreview == Init /\ [][NextPreview]_vars

\* the preview generator when two media ids may carry the same title
InitTitles ==
    /\ FFMPEG_AVAILABLE \in BOOLEAN
    /\ engine_title \in [Vids -> Titles]
    /\ video_store = <<>>
    /\ progress_data = <<>>
    /\ downloads = {}
    /\ trimmed = {}
    /\ previews = {}
    /\ flashes = {}
    /\ thread = [t \in Threads |-> IdleThread]
    /\ preview_log = <<>>
    /\ arg = <<>>
    /\ ret = NoReturn

SpecPreviewTitles == InitTitles /\ [][NextPreview]_vars

(***************************************************************************)
(* Properties.                                                             *)
(***************************************************************************)
Created == {t \in Threads : thread[t].pc # "idle"}

\* t is the only thread that was created for its job id
Sole(t) ==
    \A u \in Created : u # t => thread[u].video_id # thread[t].video_id

\* the ProgressRecord of t's job is finished with percent 100
JobFinished(t) ==
    /\ StatusOf(progress_data, thread[t].video_id) = "finished"
    /\ progress_data[thread[t].video_id].percent = 100

\* C1: when download_video has returned after an attempt that raised
\* nothing, the record of its job is finished with percent 100, whatever
\* ticks the engine emitted and however many earlier attempts failed.
C1_SuccessEndsFinished ==
    \A t \in Created :
        (thread[t].pc = "done" /\ thread[t].outcome = "success" /\ Sole(t))
            => JobFinished(t)

\* C2: a job never invokes the engine a 4th time, and once three attempts
\* have failed the thread has returned after exactly 3 invocations and the
\* record of its job is the error record of attempt 3.
C2_ExhaustedEndsError ==
    \A t \in Created :
        /\ thread[t].calls <= 3
        /\ Len(thread[t].errors) = 3 =>
              /\ thread[t].pc = "done"
              /\ thread[t].calls = 3
              /\ Sole(t) =>
                    /\ StatusOf(progress_data, thread[t].video_id) = "error"
                    /\ progress_data[thread[t].video_id] = AttemptError(3)

C2_Witness ==
    \E t \in Created : Len(thread[t].errors) = 3 /\ Sole(t)

\* C3: a job whose first two attempts fail and whose third succeeds ends
\* with the record finished at percent 100, after exactly two error
\* records, of attempt 1 and then of attempt 2.
C3_TwoFailuresThenSuccess ==
    \A t \in Created :
        (/\ thread[t].pc = "done"
         /\ thread[t].outcome = "success"
         /\ thread[t].calls = 3
         /\ Sole(t))
            => (JobFinished(t) /\ thread[t].errors = <<1, 2>>)

\* C4: with audio extraction requested and ffmpeg unavailable the engine is
\* never invoked: the thread's only step writes the error record (until
\* then the record is the one start_download wrote) and it returns.
C4_NoFfmpegNoDownload ==
    \A t \in Created :
        (thread[t].extract_audio /\ ~FFMPEG_AVAILABLE) =>
            /\ thread[t].calls = 0
            /\ thread[t].errors = <<>>
            /\ thread[t].pc \in {"begin", "done"}
            /\ (thread[t].pc = "begin" /\ Sole(t)) =>
                   progress_data[thread[t].video_id] = Starting
            /\ (thread[t].pc = "done" /\ Sole(t)) =>
                   progress_data[thread[t].video_id] = NoFfmpegError

C4_Witness ==
    \E t \in Created :
        /\ thread[t].extract_audio
        /\ ~FFMPEG_AVAILABLE
        /\ thread[t].pc = "done"
        /\ Sole(t)

\* C5: for every job id at most one download thread is running.
C5_OneThreadPerJob ==
    \A v \in Vids :
        Cardinality({t \in Created :
                        thread[t].video_id = v /\ thread[t].pc # "done"}) <= 1

\* C6: a download thread that has returned leaves the record of its job
\* terminal (finished or error), so a poller waiting for a terminal status
\* stops.
C6_ReturnedMeansTerminal ==
    \A t \in Created :
        (thread[t].pc = "done" /\ Sole(t)) =>
            StatusOf(progress_data, thread[t].video_id)
                \in {"finished", "error"}

\* C7: a failed trimming step changes nothing: no error record is written
\* for that attempt, no further download attempt is made, the output file
\* stays and the job ends as on success.
C7_TrimFailureIgnored ==
    \A t \in Created :
        thread[t].trim_failed # 0 =>
            /\ \A i \in 1..Len(thread[t].errors) :
                  thread[t].errors[i] # thread[t].trim_failed
            /\ thread[t].calls = thread[t].trim_failed
            /\ thread[t].outcome = "success"
            /\ EngineOutput(thread[t]) \in downloads

\* a trim marker is given and fails valid_time_format
BadMarkers(form) ==
    \/ Truthy(form.start_time) /\ ~valid_time_format(form.start_time)
    \/ Truthy(form.end_time) /\ ~valid_time_format(form.end_time)

\* C8: a start_download request with a non-empty trim marker that fails the
\* time-format validation writes no ProgressRecord and starts no thread.
C8_BadMarkersRejected ==
    [][\A v \in Vids, form \in StartForms :
          (BadMarkers(form) /\ start_download(v, form)) =>
              (progress_data' = progress_data /\ thread' = thread
               /\ downloads' = downloads)]_vars

C8_Witness ==
    /\ flashes = {"Invalid start time format. Use HH:MM:SS",
                  "Invalid end time format. Use HH:MM:SS"}
    /\ \E t \in Created : thread[t].pc = "download"

\* the last two replies are to the same (job id, format id) and the first
\* reported success
TwiceInSequence ==
    /\ Len(preview_log) = 2
    /\ preview_log[1].video_id = preview_log[2].video_id
    /\ preview_log[1].format_id = preview_log[2].format_id
    /\ preview_log[1].status = "ready"

\* C9 as stated: two requests in sequence for the same pair, the first
\* successful (and not yet answered from the job's previews mapping, so
\* that it is the first of the job record), return the same file name and
\* run the transcoder exactly once in total.
C9_TwiceExactlyOneRun ==
    (TwiceInSequence /\ ~preview_log[1].recorded) =>
        /\ preview_log[2].status = "ready"
        /\ preview_log[2].fname = preview_log[1].fname
        /\ preview_log[1].ffmpeg_runs + preview_log[2].ffmpeg_runs = 1

\* C9 as amended: two requests in sequence for the same pair, the first
\* successful, return the same file name; the second never runs the
\* transcoder and the first runs it at most once (not at all when the
\* preview file was already on disk).
C9_TwiceNoSecondRun ==
    TwiceInSequence =>
        /\ preview_log[2].status = "ready"
        /\ preview_log[2].fname = preview_log[1].fname
        /\ preview_log[2].ffmpeg_runs = 0
        /\ preview_log[1].ffmpeg_runs <= 1

C9_Witness ==
    /\ TwiceInSequence
    /\ preview_log[1].ffmpeg_runs = 1
    /\ preview_log[2].status = "ready"

\* the last reply: a failure of preview generation for a listed format
LastFailed ==
    /\ preview_log # <<>>
    /\ preview_log[Len(preview_log)].status = "error"
    /\ preview_log[Len(preview_log)].reason \in {"no url", "ffmpeg failed"}

\* the preview file of the pair the last reply is about
LastPreviewFile ==
    LET r == preview_log[Len(preview_log)]
    IN PreviewName(video_store[r.video_id].title, r.format_id)

\* no file name is recorded for the pair the last reply is about
LastNotRecorded ==
    LET r == preview_log[Len(preview_log)]
    IN r.format_id \notin DOMAIN video_store[r.video_id].previews

WithPercent == {v \in DOMAIN progress_data : "percent" \in DOMAIN progress_data[v]}

\* C11: every percent stored in a ProgressRecord is an integer in 0..100,
\* whatever byte count and (estimated) total the downloading ticks of the
\* engine carry.
C11_PercentInRange ==
    \A v \in WithPercent : progress_data[v].percent \in 0..100

\* C12: a poll of a job id leaves the Progress Tracker as it is and returns
\* the record of the job, or the default record (not started, percent 0)
\* when there is none; the status it returns is one of not started,
\* starting, downloading, finished, error.
C12_PollReadsOnly ==
    [][\A v \in PollIds :
          progress_status(v) =>
              /\ progress_data' = progress_data
              /\ ret'.val = IF v \in DOMAIN progress_data
                            THEN progress_data[v]
                            ELSE [status |-> "not started", percent |-> 0]
              /\ ret'.val.status \in {"not started", "starting",
                                      "downloading", "finished", "error"}]_vars

C12_Witness ==
    /\ ret.fn = "progress_status"
    /\ ret.val.status = "not started"
    /\ \E v \in DOMAIN progress_data : progress_data[v].status = "finished"

\* process_formats has returned its output for the input arg
FormatsReturned == ret.fn = "process_formats"

\* the candidates of the input arg in the group of the output entry e
GroupOf(e) ==
    LET c == Candidates(arg)
    IN {c[i] : i \in {j \in 1..Len(c) : DedupKey(c[j]) = DedupKey(e)}}

\* (size, bitrate) of a is at most that of b, lexicographically
MeasureLeq(a, b) ==
    \/ a.filesize < b.filesize
    \/ a.filesize = b.filesize /\ a.tbr <= b.tbr

\* the (group, size, bitrate) triples process_formats keeps of a list
Kept(raw_formats) ==
    LET out == process_formats(raw_formats)
    IN {<<DedupKey(out[i]), out[i].filesize, out[i].tbr>> : i \in 1..Len(out)}

\* the input arg in every order
Reorderings ==
    LET n == Len(arg)
        perms == {p \in [1..n -> 1..n] : \A i, j \in 1..n : p[i] = p[j] => i = j}
    IN {[i \in 1..n |-> arg[p[i]]] : p \in perms}

\* C13: the entry process_formats keeps for a group has the largest
\* (size, then bitrate) among the allowed-extension entries of its group,
\* and which sizes and bitrates are kept does not depend on the order of
\* the input.
C13_KeepsLargest ==
    FormatsReturned =>
        /\ \A i \in 1..Len(ret.val) :
              \A c \in GroupOf(ret.val[i]) : MeasureLeq(c, ret.val[i])
        /\ \A other \in Reorderings : Kept(other) = Kept(arg)

\* C14: the output of process_formats holds no two entries with equal
\* (height, ext).
C14_OnePerGroup ==
    FormatsReturned =>
        \A i, j \in 1..Len(ret.val) :
            (ret.val[i].height = ret.val[j].height
             /\ ret.val[i].ext = ret.val[j].ext) => i = j

C14_Witness ==
    /\ FormatsReturned
    /\ Len(Candidates(arg)) = 3
    /\ Len(ret.val) = 2

\* C15: the output of process_formats is sorted: entries with a height
\* come before entries without, heights do not increase, and entries of
\* equal height are in descending bitrate, then descending filesize.
C15_Sorted ==
    FormatsReturned =>
        \A i, j \in 1..Len(ret.val) :
            i < j =>
                LET a == ret.val[i]
                    b == ret.val[j]
                IN /\ a.height = Null => b.height = Null
                   /\ (a.height # Null /\ b.height # Null) =>
                          a.height >= b.height
                   /\ a.height = b.height =>
                          \/ a.tbr > b.tbr
                          \/ a.tbr = b.tbr /\ a.filesize >= b.filesize

C15_Witness ==
    /\ FormatsReturned
    /\ Len(ret.val) = 3
    /\ ret.val # Candidates(arg)
    /\ ret.val[1].height = 360
    /\ ret.val[2].height = 0
    /\ ret.val[3].height = Null

\* one or more digits
PlainSeconds(c) == Len(c) >= 1 /\ \A i \in 1..Len(c) : c[i] \in DecimalDigits

\* 1-2 digits, then zero, one or two groups of a colon and two digits
ClockTime(c) ==
    \E n \in {1, 2}, k \in {0, 1, 2} :
        /\ Len(c) = n + 3 * k
        /\ \A i \in 1..Len(c) :
              IF i > n /\ (i - n) % 3 = 1 THEN c[i] = ":"
              ELSE c[i] \in DecimalDigits

\* t is a string that, without its surrounding whitespace, is a time
Accepted(t) ==
    /\ t # None
    /\ \E a, b \in 0..Len(t) :
          /\ a + b <= Len(t)
          /\ \A i \in 1..a : t[i] \in Whitespace
          /\ \A i \in (Len(t) - b + 1)..Len(t) : t[i] \in Whitespace
          /\ LET c == SubSeq(t, a + 1, Len(t) - b)
             IN PlainSeconds(c) \/ ClockTime(c)

\* C16: valid_time_format accepts a string exactly when, without its
\* surrounding whitespace, it is one or more digits, or 1-2 digits followed
\* by at most two groups of a colon and two digits (a digit being what \d
\* matches); it accepts "30", "1:23" and "00:01:23" and rejects "", "abc"
\* and "1:2:3:4".
C16_TimeFormat ==
    /\ ret.fn = "valid_time_format" => (ret.val <=> Accepted(arg))
    /\ valid_time_format(<<"3", "0">>)
    /\ valid_time_format(<<"1", ":", "2", "3">>)
    /\ valid_time_format(<<"0", "0", ":", "0", "1", ":", "2", "3">>)
    /\ ~valid_time_format(<<>>)
    /\ ~valid_time_format(<<"a", "b", "c">>)
    /\ ~valid_time_format(<<"1", ":", "2", ":", "3", ":", "4">>)

C16_Witness ==
    /\ ret.fn = "valid_time_format"
    /\ ret.val
    /\ arg = <<" ", "1", ":", "1", "1", ":", "1", "1">>

\* C17: sanitize_filename returns a string of length min(len(input), 200)
\* whose characters are those of the input prefix, each one outside the
\* allow-list replaced by "_"; so the result holds only allowed characters
\* and sanitizing it again changes nothing.
C17_Sanitized ==
    ret.fn = "sanitize_filename" =>
        /\ Len(ret.val) = Min(Len(arg), 200)
        /\ \A i \in 1..Len(ret.val) :
              /\ arg[i] \in AllowedChars => ret.val[i] = arg[i]
              /\ arg[i] \notin AllowedChars => ret.val[i] = "_"
              /\ ret.val[i] \in AllowedChars
        /\ sanitize_filename(ret.val) = ret.val

C17_Witness ==
    /\ ret.fn = "sanitize_filename"
    /\ Len(arg) = 202
    /\ Len(ret.val) = 200
    /\ arg[199] = "U+00E9"
    /\ ret.val[199] = "_"

\* the thread t is in the backoff pause after its attempt k failed
InBackoff(t) == thread[t].pc = "sleep"

\* C18: in the backoff pause after attempt k (1 or 2) failed the record is
\* the error record of attempt k; the engine invocation of attempt k+1
\* begins only from that pause and with the record reset to starting,
\* percent 0; the attempt numbers of the error records of one thread are
\* strictly increasing and lie in 1..3.
C18_BackoffThenReset ==
    /\ [](\A t \in Created :
            /\ (InBackoff(t) /\ Sole(t)) =>
                   /\ thread[t].attempt \in {1, 2}
                   /\ progress_data[thread[t].video_id]
                          = [status |-> "error", message |-> "exception",
                             attempt |-> thread[t].attempt]
            /\ \A i \in 1..Len(thread[t].errors) :
                   /\ thread[t].errors[i] \in 1..3
                   /\ i > 1 => thread[t].errors[i - 1] < thread[t].errors[i])
    /\ [][\A t \in Created :
            (thread[t].calls >= 1 /\ thread'[t].calls > thread[t].calls) =>
                /\ InBackoff(t)
                /\ thread'[t].calls = thread[t].calls + 1
                /\ thread'[t].attempt = thread[t].attempt + 1
                /\ progress_data'[thread[t].video_id]
                       = [status |-> "starting", percent |-> 0]]_vars

C18_Witness ==
    \E t \in Created :
        /\ Sole(t)
        /\ thread[t].pc = "download"
        /\ thread[t].calls = 3
        /\ thread[t].errors = <<1, 2>>
        /\ progress_data[thread[t].video_id] = Starting

\* C19: once the record of a job is finished, no later write of the job's
\* thread gives it another status (so that a poller stopping at the first
\* finished record sees the final state of the job).
C19_FinishedIsStable ==
    [][\A t \in Created :
          (/\ Sole(t)
           /\ StatusOf(progress_data, thread[t].video_id) = "finished"
           /\ thread'[t].video_id = thread[t].video_id
           /\ \A u \in Threads : u # t => thread'[u] = thread[u])
              => StatusOf(progress_data', thread[t].video_id) = "finished"]_vars

\* the argument that follows the word w in a command, <<>> if w is not in it
After(cmd, w) ==
    LET at == {i \in 1..(Len(cmd) - 1) : cmd[i] = <<w>>}
    IN IF at = {} THEN <<>>
       ELSE cmd[(CHOOSE i \in at : \A j \in at : i <= j) + 1]

\* the command has the word w
Has(cmd, w) == \E i \in 1..Len(cmd) : cmd[i] = <<w>>

\* C20: trim_media is called only for a job with a trim marker and without
\* audio extraction, only in an attempt whose engine download returned and
\* at most once per attempt; the output file is replaced by the trimmed
\* one only after a trim that reported success; the command seeks to the
\* start exactly when a start marker was given and bounds a given end by
\* -to when a start marker was given, else by -t.
C20_TrimStep ==
    /\ \A t \in Created :
          \A i \in 1..Len(thread[t].trims) :
              LET th == thread[t]
                  call == th.trims[i]
              IN /\ th.start_time \notin {None, <<>>}
                        \/ th.end_time \notin {None, <<>>}
                 /\ ~th.extract_audio
                 /\ call.attempt \in th.returned
                 /\ i > 1 => th.trims[i - 1].attempt < call.attempt
                 /\ Has(call.cmd, "-ss") <=> th.start_time \notin {None, <<>>}
                 /\ Has(call.cmd, "-ss") =>
                        After(call.cmd, "-ss") = th.start_time
                 /\ IF th.end_time \in {None, <<>>}
                    THEN ~Has(call.cmd, "-to") /\ ~Has(call.cmd, "-t")
                    ELSE IF th.start_time \notin {None, <<>>}
                    THEN /\ After(call.cmd, "-to") = th.end_time
                         /\ ~Has(call.cmd, "-t")
                    ELSE /\ After(call.cmd, "-t") = th.end_time
                         /\ ~Has(call.cmd, "-to")
    /\ \A f \in trimmed :
          \E t \in Created :
              /\ OriginalFile(thread[t]) = f
              /\ \E i \in 1..Len(thread[t].trims) :
                     thread[t].trims[i].result = "ok"

C20_Witness ==
    \E t \in Created :
        /\ thread[t].start_time = <<>>
        /\ Len(thread[t].trims) = 2
        /\ thread[t].trims[1].result = "raised"
        /\ thread[t].trims[2].result = "ok"
        /\ Has(thread[t].trims[2].cmd, "-t")
        /\ OriginalFile(thread[t]) \in trimmed

\* the step leaves the ProgressRecord of job id v as it is
SameRecord(v) ==
    /\ (v \in DOMAIN progress_data') <=> (v \in DOMAIN progress_data)
    /\ v \in DOMAIN progress_data => progress_data'[v] = progress_data[v]

\* C21: a step of the download thread of job id J (a progress tick or a
\* step of download_video, a failing attempt included) leaves the
\* ProgressRecord of every other job id as it is, and a thread that has
\* not returned can always take its next step, whatever the other threads
\* did.
C21_WritesOwnRecord ==
    /\ [][\A t \in Threads :
            ((\E d \in Ticks : EngineTick(t, d)) \/ Advance(t)) =>
                \A v \in Vids \ {thread[t].video_id} : SameRecord(v)]_vars
    /\ [](\A t \in Created : thread[t].pc # "done" => ENABLED Advance(t))

C21_Witness ==
    \E t, u \in Created :
        /\ thread[t].video_id # thread[u].video_id
        /\ thread[t].pc = "done"
        /\ thread[t].outcome = "exhausted"
        /\ progress_data[thread[t].video_id] = AttemptError(3)
        /\ thread[u].pc = "done"
        /\ thread[u].outcome = "success"
        /\ StatusOf(progress_data, thread[u].video_id) = "finished"

\* C22: two different job ids never get the same preview file: a file name
\* returned for (job id, format id) is that of a file transcoded from the
\* stream of that job, never a file generated earlier for another job
\* whose title sanitizes to the same name.
C22_PreviewOfOwnJob ==
    (/\ Len(preview_log) = 2
     /\ preview_log[1].status = "ready"
     /\ preview_log[2].status = "ready"
     /\ preview_log[1].video_id # preview_log[2].video_id)
        => preview_log[2].fname # preview_log[1].fname

\* the allowed-extension entries of the input arg, as (height, ext) pairs
\* with the extension in lower case
AllowedPairs ==
    {<<arg[j].height, lower(arg[j].ext)>> :
        j \in {k \in 1..Len(arg) :
                  /\ arg[k].ext # None
                  /\ lower(arg[k].ext) \in {Mp4, M4a, Webm, Mkv, Mp3}}}

\* C23: every output entry of process_formats comes from an input entry
\* with an allowed extension, every (height, ext) pair among the allowed
\* input entries (a null height and height 0 being different pairs) has
\* exactly one entry in the output, and the empty input gives the empty
\* output.
C23_FilterAndSelect ==
    FormatsReturned =>
        /\ \A i \in 1..Len(ret.val) :
              \E j \in 1..Len(arg) :
                  /\ arg[j].ext # None
                  /\ lower(arg[j].ext) \in {Mp4, M4a, Webm, Mkv, Mp3}
                  /\ ret.val[i] = Candidate(arg[j])
        /\ \A pair \in AllowedPairs :
              Cardinality({i \in 1..Len(ret.val) :
                              <<ret.val[i].height, ret.val[i].ext>> = pair}) = 1
        /\ arg = <<>> => ret.val = <<>>

====
